---- MODULE Spec2Model ----
(***************************************************************************)
(* Persisted upload queue of the p115strmhelper plugin: the Task Store     *)
(* (upload_queue table), the History Store (upload_history table), the     *)
(* Enqueuer (monitor.enqueue_file) and the single-flight Processor         *)
(* (UploadQueueProcessor.process_one_task) with its startup Recovery.      *)
(* Every store operation is one persisted write or read and is one step.   *)
(***************************************************************************)
EXTENDS Integers, Sequences, FiniteSets, TLC

\* ------------------------------------------------------------------ bounds
\* the wall clock (integer seconds) runs over 0..MaxTime
MaxTime == 1
\* process crashes plus faults raised by store operations, per behaviour
MaxUpsets == 1

\* process_one_task calls made in the behaviours that interleave its callers
MaxCalls == 3
\* handler calls made in the behaviours that run enqueue_file step by step
MaxPasses == 4
\* the observer counts of transfer calls and successes per task stop here
MaxCount == 4

\* cleanup_old_records is called with 0..MaxDays days
MaxDays == 2
\* rows of the history table a cleanup starts from
MaxHistory == 2

\* ------------------------------------------------------- program constants
\* "days * 86400" in cleanup_old_records
Day == 86400
\* "if retry_count < 3" in process_one_task
MaxRetry == 3

\* ---------------------------------------------------------------- universe
\* watched files, each under the monitor root that raises its events
Paths == {"/mon/a.mkv", "/del/s/b.srt"}
\* a file the watcher reports from a hidden directory
HiddenPath == "/mon/.t/c.mkv"
\* the paths watcher events carry
EventPaths == Paths \cup {HiddenPath}
MonOf(path) == IF path = "/del/s/b.srt" THEN "/del" ELSE "/mon"
\* Path(path).suffix as a sequence of characters
SuffixOf(path) == IF path = "/del/s/b.srt" THEN <<".", "s", "r", "t">>
                                           ELSE <<".", "m", "k", "v">>
\* The files belong to the environment (downloads write them, users remove
\* them), so every read of the file system returns any answer it can give.
\* What stat() can report for a file: st_size and st_mtime in tenths of a
\* second; the two files can carry the same size and modification time
FileVersions(path) ==
  IF path = "/mon/a.mkv"
  THEN { [size |-> 1, mtime10 |-> 15], [size |-> 2, mtime10 |-> 27] }
  ELSE IF path = HiddenPath
  THEN { [size |-> 1, mtime10 |-> 15] }
  ELSE { [size |-> 0, mtime10 |-> 15], [size |-> 1, mtime10 |-> 15] }
NoFile == [size |-> -1, mtime10 |-> -1]
\* messages a failing transfer can report
Msgs == {"e1", "e2"}
MissingMsg == "missing"
NoneVal == "None"
\* caller threads of process_one_task, threads running enqueue_file
Workers == {1, 2}
Enqueuers == {1, 2}
\* process instances that share the two tables
Instances == {1, 2}

\* ------------------------------------------------------------------- state
VARIABLES
  queue,          \* upload_queue table: sequence of rows, id = position
  history,        \* upload_history table: sequence of rows
  now,            \* wall clock, integer seconds, as last read
  running,        \* TRUE while the process is up and Recovery has run
  is_processing,  \* UploadQueueProcessor.is_processing of each instance
  proc,           \* Workers -> position and locals of a process_one_task call
  enq,            \* Enqueuers -> position and locals of an enqueue_file call
  inst,           \* thread -> the process instance the thread runs in
  locks,          \* directory_upload_dict of each instance: path -> holder
  config,         \* configer: directory_upload_path, uploadext, copyext
  disk,           \* files and directories as the deletion walk leaves them
  xfer,           \* observer: per task id, transfer calls made and succeeded
  upsets,         \* crashes and store faults so far
  started         \* handler calls counted where threads interleave

vars == <<queue, history, now, running, is_processing, proc, enq, inst, locks,
          config, disk, xfer, upsets, started>>

\* --------------------------------------------------------- pure functions
\* int(file_mtime): truncation of the float modification time
IntTrunc(m10) == m10 \div 10

RECURSIVE ToStr(_)
\* str(n) of a non-negative integer, as a sequence of digit characters
ToStr(n) ==
  LET d == <<"0", "1", "2", "3", "4", "5", "6", "7", "8", "9">>
  IN IF n < 10 THEN <<d[n + 1]>> ELSE ToStr(n \div 10) \o <<d[(n % 10) + 1]>>

\* f"{file_size}_{int(file_mtime)}"
Fingerprint(size, mtimeInt) == ToStr(size) \o <<"_">> \o ToStr(mtimeInt)

Ids(q) == 1..Len(q)

\* ------------------------------------------------------------ file system
\* Path(s).parts of the path strings in use, the root "/" left out: every
\* part is a sequence of characters and a trailing slash is dropped
PathOf(s) ==
  LET mon == <<"m", "o", "n">>
      del == <<"d", "e", "l">>
  IN CASE s = "/mon" -> <<mon>>
       [] s = "/del" -> <<del>>
       [] s = "/del/" -> <<del>>
       [] s = "/del/s" -> <<del, <<"s">>>>
       [] s = "/mon/a.mkv" -> <<mon, <<"a", ".", "m", "k", "v">>>>
       [] s = "/mon/.t/c.mkv" -> <<mon, <<".", "t">>, <<"c", ".", "m", "k", "v">>>>
       [] s = "/del/s/b.srt" -> <<del, <<"s">>, <<"b", ".", "s", "r", "t">>>>
       [] s = "/del/s/t/d.srt"
            -> <<del, <<"s">>, <<"t">>, <<"d", ".", "s", "r", "t">>>>
       [] s = "/del/s/o.nfo" -> <<del, <<"s">>, <<"o", ".", "n", "f", "o">>>>
       [] s = "/del/k.nfo" -> <<del, <<"k", ".", "n", "f", "o">>>>
       [] s = "/del/s/e" -> <<del, <<"s">>, <<"e">>>>
       [] s = "/del/e" -> <<del, <<"e">>>>

RECURSIVE Joined(_)
Joined(parts) ==
  IF parts = <<>> THEN <<>>
  ELSE Joined(SubSeq(parts, 1, Len(parts) - 1)) \o <<"/">> \o parts[Len(parts)]

\* str(path) of an absolute path, as a sequence of characters
PathStr(parts) == IF parts = <<>> THEN <<"/">> ELSE Joined(parts)

\* path.parent
Parent(parts) == SubSeq(parts, 1, Len(parts) - 1)

\* dir is p or a directory above p
IsUnder(dir, p) == Len(dir) <= Len(p) /\ SubSeq(p, 1, Len(dir)) = dir

\* "sub in s" on sequences of characters
Contains(s, sub) ==
  \E k \in 1..(Len(s) - Len(sub) + 1) : SubSeq(s, k, k + Len(sub) - 1) = sub

\* the directories above the paths of a set, the root included
DirsAbove(paths) ==
  UNION { { SubSeq(p, 1, k) : k \in 0..(Len(p) - 1) } : p \in paths }

\* a tree holding the given files and the given directories besides
TreeOf(files, dirs) ==
  [files |-> files, dirs |-> dirs \cup DirsAbove(files \cup dirs)]

\* both watched files in place
DefaultDisk == TreeOf({ PathOf(p) : p \in Paths }, {})

\* file_path.unlink(missing_ok=True)
unlink(d, file) == [d EXCEPT !.files = @ \ {file}]

\* SystemUtils.list_files(file_dir): the files in the directory and below
list_files(d, file_dir) == { f \in d.files : IsUnder(file_dir, f) }

\* shutil.rmtree(file_dir, ignore_errors=True)
rmtree(d, file_dir) ==
  [files |-> { f \in d.files : ~IsUnder(file_dir, f) },
   dirs |-> { x \in d.dirs : ~IsUnder(file_dir, x) }]

\* the walk stopping one directory too late
AtMonitorRootOrAboveStrict(file_dir, monitor_path) ==
  Len(PathStr(file_dir)) < Len(PathStr(PathOf(monitor_path)))

\* "if len(str(file_dir)) <= len(str(Path(monitor_path))): break"
AtMonitorRootOrAbove(file_dir, monitor_path) ==
  Len(PathStr(file_dir)) <= Len(PathStr(PathOf(monitor_path)))

\* "for file_dir in file_path.parents", from file_dir on
RECURSIVE RemoveEmptyParents(_, _, _)
RemoveEmptyParents(d, file_dir, monitor_path) ==
  IF AtMonitorRootOrAbove(file_dir, monitor_path) THEN d
  ELSE IF list_files(d, file_dir) = {}
       THEN RemoveEmptyParents(rmtree(d, file_dir), Parent(file_dir),
                               monitor_path)
       ELSE d

\* _delete_source_file(file_path, monitor_path)
delete_source_file(d, file_path, monitor_path) ==
  RemoveEmptyParents(unlink(d, PathOf(file_path)), Parent(PathOf(file_path)),
                     monitor_path)

\* ------------------------------------------------------------- Task Store
\* A row carries the columns the operations read; file_name and updated_at are
\* written and read by no operation modelled here.
\* order_by(created_at.asc()).limit(1) over status == "pending": a row with the
\* least created_at; among rows with equal created_at the order is unspecified
\* the selection taking Processing rows as well
get_next_live_task(q) ==
  { i \in Ids(q) : /\ q[i].status \in {"pending", "processing"}
                   /\ \A j \in Ids(q) : q[j].status \in {"pending", "processing"}
                                        => q[i].created_at <= q[j].created_at }

get_next_pending_task(q) ==
  { i \in Ids(q) : /\ q[i].status = "pending"
                   /\ \A j \in Ids(q) : q[j].status = "pending"
                                        => q[i].created_at <= q[j].created_at }

mark_as_processing(q, id) ==
  [q EXCEPT ![id].status = "processing"]

mark_as_completed(q, id) ==
  [q EXCEPT ![id].status = "completed"]

mark_as_failed(q, id, msg, rc) ==
  [q EXCEPT ![id].status = "failed", ![id].error_message = msg,
            ![id].retry_count = rc]

\* the retry write forgetting the retry_count column
mark_as_pending_retry_no_count(q, id, rc) ==
  [q EXCEPT ![id].status = "pending"]

\* the retry write leaving a note in the error_message column
mark_as_pending_retry_noting(q, id, rc) ==
  [q EXCEPT ![id].status = "pending", ![id].retry_count = rc,
            ![id].error_message = "retry"]

mark_as_pending_retry(q, id, rc) ==
  [q EXCEPT ![id].status = "pending", ![id].retry_count = rc]

\* the queue check looking at pending rows alone
exists_in_queue_pending_only(q, path) ==
  Cardinality({ i \in Ids(q) : /\ q[i].file_path = path
                               /\ q[i].status = "pending" }) > 0

exists_in_queue(q, path) ==
  Cardinality({ i \in Ids(q) : /\ q[i].file_path = path
                               /\ q[i].status \in {"pending", "processing"} }) > 0

\* a table without the unique index
UniqueViolationNone(q, path) == FALSE

\* the unique index on file_path rejects a second row for a path
UniqueViolation(q, path) == \E i \in Ids(q) : q[i].file_path = path

\* the insert storing the modification time as stat() gave it
create_task_raw_mtime(q, path, size, mtime10, mon, op, remote, local, del, t) ==
  Append(q, [id |-> Len(q) + 1,
             file_path |-> path,
             file_size |-> size,
             file_mtime |-> mtime10,
             monitor_path |-> mon,
             dest_remote |-> remote,
             dest_local |-> local,
             operation_type |-> op,
             delete_source |-> del,
             status |-> "pending",
             retry_count |-> 0,
             error_message |-> NoneVal,
             created_at |-> t])

create_task(q, path, size, mtime10, mon, op, remote, local, del, t) ==
  Append(q, [id |-> Len(q) + 1,
             file_path |-> path,
             file_size |-> size,
             file_mtime |-> IntTrunc(mtime10),
             monitor_path |-> mon,
             dest_remote |-> remote,
             dest_local |-> local,
             operation_type |-> op,
             delete_source |-> del,
             status |-> "pending",
             retry_count |-> 0,
             error_message |-> NoneVal,
             created_at |-> t])

\* the reset also clearing the retry counter
reset_processing_tasks_zeroing(q) ==
  [i \in Ids(q) |->
     IF q[i].status = "processing"
     THEN [q[i] EXCEPT !.status = "pending", !.retry_count = 0]
     ELSE q[i]]

\* "count = result.rowcount; return count": the rows the update matched
reset_processing_count(q) ==
  Cardinality({ i \in Ids(q) : q[i].status = "processing" })

reset_processing_tasks(q) ==
  [i \in Ids(q) |->
     IF q[i].status = "processing" THEN [q[i] EXCEPT !.status = "pending"]
                                   ELSE q[i]]

\* ---------------------------------------------------------- History Store
\* the history lookup finding nothing
is_uploaded_never(h, fingerprint, size) == FALSE

is_uploaded(h, fingerprint, size) ==
  \E k \in 1..Len(h) : /\ h[k].file_fingerprint = fingerprint
                       /\ h[k].file_size = size

record_upload(h, fingerprint, size, path, op, remote, local, t) ==
  Append(h, [file_fingerprint |-> fingerprint,
             file_size |-> size,
             file_path |-> path,
             dest_remote |-> remote,
             dest_local |-> local,
             operation_type |-> op,
             completed_at |-> t])

\* int(x) of a float given in tenths: the fraction is cut off towards zero
IntTowardsZero(x10) == IF x10 >= 0 THEN x10 \div 10 ELSE -((-x10) \div 10)

\* a cutoff that rounds the float to the next second upwards
cleanup_cutoff_ceiling(days, t10) == (t10 - days * Day * 10 + 9) \div 10

\* cutoff_timestamp = int(datetime.now().timestamp() - days * 86400), the clock
\* read as t10 tenths of a second
cleanup_cutoff(days, t10) == IntTowardsZero(t10 - days * Day * 10)

\* delete(UploadHistory).where(UploadHistory.completed_at < cutoff_timestamp)
cleanup_old_records(h, days, t10) ==
  SelectSeq(h, LAMBDA r : ~(r.completed_at < cleanup_cutoff(days, t10)))

\* "count = result.rowcount; return count"
cleanup_count(h, days, t10) ==
  Cardinality({ k \in 1..Len(h) :
                  h[k].completed_at < cleanup_cutoff(days, t10) })

\* -------------------------------------------------- Enqueuer, pure parts
\* s.split(sep) on a sequence of characters
RECURSIVE SplitAt(_, _, _)
SplitAt(s, sep, cur) ==
  IF s = <<>> THEN <<cur>>
  ELSE IF Head(s) = sep THEN <<cur>> \o SplitAt(Tail(s), sep, <<>>)
  ELSE SplitAt(Tail(s), sep, Append(cur, Head(s)))

\* s.replace("\uFF0C", ","): the full-width comma is the character "FWC"
ReplaceFullWidth(s) == [k \in 1..Len(s) |-> IF s[k] = "FWC" THEN "," ELSE s[k]]

RECURSIVE LStrip(_)
LStrip(s) == IF s # <<>> /\ Head(s) = " " THEN LStrip(Tail(s)) ELSE s
RECURSIVE RStrip(_)
RStrip(s) ==
  IF s # <<>> /\ s[Len(s)] = " " THEN RStrip(SubSeq(s, 1, Len(s) - 1)) ELSE s
\* ext.strip()
Strip(s) == RStrip(LStrip(s))

\* [f".{ext.strip()}" for ext in value.replace("\uFF0C", ",").split(",")]
ExtList(value) ==
  LET parts == SplitAt(ReplaceFullWidth(value), ",", <<>>)
  IN { <<".">> \o Strip(parts[k]) : k \in 1..Len(parts) }

\* str.lower() on the characters the universe uses
LowerChar(c) ==
  CASE c = "M" -> "m" [] c = "K" -> "k" [] c = "V" -> "v"
    [] c = "S" -> "s" [] c = "R" -> "r" [] c = "T" -> "t"
    [] OTHER -> c
Lower(s) == [k \in 1..Len(s) |-> LowerChar(s[k])]

\* the first entry of directory_upload_path whose src equals mon_path, or 0
MatchConfig(cfg, mon) ==
  LET hits == { k \in 1..Len(cfg.paths) : cfg.paths[k].src = mon }
  IN IF hits = {} THEN 0 ELSE CHOOSE k \in hits : \A j \in hits : k <= j

\* the classification testing the copy list before the upload list
ClassifyCopyFirst(cfg, path, mon) ==
  LET k == MatchConfig(cfg, mon)
      suffix == Lower(SuffixOf(path))
  IN IF k = 0 THEN "skip"
     ELSE IF suffix \in ExtList(cfg.copyext)
          THEN (IF cfg.paths[k].dest_local = "" THEN "skip" ELSE "copy")
     ELSE IF suffix \in ExtList(cfg.uploadext)
          THEN (IF cfg.paths[k].dest_remote = "" THEN "skip" ELSE "upload")
     ELSE "skip"

\* the classification without the tests for an empty destination
ClassifyNoDestCheck(cfg, path, mon) ==
  LET k == MatchConfig(cfg, mon)
      suffix == Lower(SuffixOf(path))
  IN IF k = 0 THEN "skip"
     ELSE IF suffix \in ExtList(cfg.uploadext) THEN "upload"
     ELSE IF suffix \in ExtList(cfg.copyext) THEN "copy"
     ELSE "skip"

\* sections 4-5 of enqueue_file: "upload", "copy" or "skip"
Classify(cfg, path, mon) ==
  LET k == MatchConfig(cfg, mon)
      suffix == Lower(SuffixOf(path))
  IN IF k = 0 THEN "skip"
     ELSE IF suffix \in ExtList(cfg.uploadext)
          THEN (IF cfg.paths[k].dest_remote = "" THEN "skip" ELSE "upload")
     ELSE IF suffix \in ExtList(cfg.copyext)
          THEN (IF cfg.paths[k].dest_local = "" THEN "skip" ELSE "copy")
     ELSE "skip"

\* the configuration the deployment runs with
DefaultConfig ==
  [paths |-> << [src |-> "/mon", dest_remote |-> "/r", dest_local |-> "",
                 delete |-> FALSE],
                [src |-> "/del", dest_remote |-> "", dest_local |-> "/l",
                 delete |-> TRUE] >>,
   uploadext |-> <<"m", "k", "v">>,
   copyext |-> <<"s", "r", "t">>]

\* what the user can have entered for the monitor root "/mon": no entry, or
\* an entry with either destination set or left empty
MonEntries ==
  {<<>>} \cup { <<[src |-> "/mon", dest_remote |-> r, dest_local |-> l,
                   delete |-> FALSE]>> : r \in {"", "/r"}, l \in {"", "/l"} }

\* values of directory_upload_uploadext: "mkv", "MKV" and " mkv\uFF0Csrt"
UploadExts ==
  { <<"m", "k", "v">>, <<"M", "K", "V">>,
    <<" ", "m", "k", "v", "FWC", "s", "r", "t">> }

\* values of directory_upload_copyext: "srt" and "mkv, srt"
CopyExts ==
  { <<"s", "r", "t">>, <<"m", "k", "v", ",", " ", "s", "r", "t">> }

\* the configurations a deployment can run with
Configs ==
  { [paths |-> m \o <<DefaultConfig.paths[2]>>, uploadext |-> u, copyext |-> c] :
      m \in MonEntries, u \in UploadExts, c \in CopyExts }

\* ---------------------------------------------------------- initial state
NoTask == [id |-> 0]
IdleProc == [pc |-> "idle", task |-> NoTask, msg |-> NoneVal]
IdleEnq == [pc |-> "idle", path |-> NoneVal, size1 |-> -1, stat |-> NoFile]

\* empty tables, no files yet, the process about to start
Init ==
  /\ queue = <<>>
  /\ history = <<>>
  /\ now = 0
  /\ running = FALSE
  /\ is_processing = [n \in Instances |-> FALSE]
  /\ proc = [w \in Workers |-> IdleProc]
  /\ enq = [e \in Enqueuers |-> IdleEnq]
  /\ inst = [e \in Enqueuers |-> 1]
  /\ locks = [n \in Instances |-> [p \in EventPaths |-> 0]]
  /\ config = DefaultConfig
  /\ disk = DefaultDisk
  /\ xfer = <<>>
  /\ upsets = 0
  /\ started = 0

\* ------------------------------------------------------------ environment
\* int(datetime.now().timestamp()): a reading t of the wall clock, which never
\* runs backwards; now is the latest reading
ReadClock(t) ==
  /\ t \in now..MaxTime
  /\ now' = t

\* the process dies: threads, the busy flag and the lock registry are lost,
\* the two tables stay
Crash ==
  /\ running
  /\ upsets < MaxUpsets
  /\ upsets' = upsets + 1
  /\ running' = FALSE
  /\ is_processing' = [n \in Instances |-> FALSE]
  /\ proc' = [w \in Workers |-> IdleProc]
  /\ enq' = [e \in Enqueuers |-> IdleEnq]
  /\ locks' = [n \in Instances |-> [p \in EventPaths |-> 0]]
  /\ UNCHANGED <<queue, history, now, config, disk, xfer, started, inst>>

\* --------------------------------------------------------------- Recovery
\* UploadQueueProcessor(); reset_stale_tasks() at process start
reset_stale_tasks ==
  /\ ~running
  /\ queue' = reset_processing_tasks(queue)
  /\ running' = TRUE
  /\ UNCHANGED <<history, now, is_processing, proc, enq, inst, locks, config,
                 disk, xfer, upsets, started>>

\* -------------------------------------------------------------- Processor
SetProc(w, pc, task, msg) ==
  proc' = [proc EXCEPT ![w] = [pc |-> pc, task |-> task, msg |-> msg]]

GoProc(w, pc) == proc' = [proc EXCEPT ![w].pc = pc]

\* the trigger calls process_one_task(); who counts the calls says so
ProcCall(w) ==
  /\ running
  /\ proc[w].pc = "idle"
  /\ GoProc(w, "enter")
  /\ UNCHANGED <<queue, history, now, running, is_processing, enq, inst, locks,
                 config, disk, xfer, upsets>>

\* the busy return placed inside the try block: its finally clears the flag
ProcBusyReleasing(w) ==
  /\ proc[w].pc = "enter"
  /\ is_processing[inst[w]]
  /\ is_processing' = [is_processing EXCEPT ![inst[w]] = FALSE]
  /\ GoProc(w, "idle")
  /\ UNCHANGED <<queue, history, now, running, enq, inst, locks, config, disk,
                 xfer, upsets, started>>

\* "if self.is_processing: return False"
ProcBusy(w) ==
  /\ proc[w].pc = "enter"
  /\ is_processing[inst[w]]
  /\ GoProc(w, "idle")
  /\ UNCHANGED <<queue, history, now, running, is_processing, enq, inst, locks,
                 config, disk, xfer, upsets, started>>

\* the busy test found the flag clear
ProcFree(w) ==
  /\ proc[w].pc = "enter"
  /\ ~is_processing[inst[w]]
  /\ GoProc(w, "claim")
  /\ UNCHANGED <<queue, history, now, running, is_processing, enq, inst, locks,
                 config, disk, xfer, upsets, started>>

\* "self.is_processing = True"
ProcClaim(w) ==
  /\ proc[w].pc = "claim"
  /\ is_processing' = [is_processing EXCEPT ![inst[w]] = TRUE]
  /\ GoProc(w, "get")
  /\ UNCHANGED <<queue, history, now, running, enq, inst, locks, config, disk,
                 xfer, upsets, started>>

\* "task = UploadQueue.get_next_pending_task()": the row is read into the local
ProcGet(w) ==
  /\ proc[w].pc = "get"
  /\ IF get_next_pending_task(queue) = {}
     THEN GoProc(w, "finally")
     ELSE \E i \in get_next_pending_task(queue) :
            SetProc(w, "mark", queue[i], NoneVal)
  /\ UNCHANGED <<queue, history, now, running, is_processing, enq, inst, locks,
                 config, disk, xfer, upsets, started>>

\* "UploadQueue.mark_as_processing(task.id)"
ProcMark(w) ==
  /\ proc[w].pc = "mark"
  /\ queue' = mark_as_processing(queue, proc[w].task.id)
  /\ GoProc(w, "exists")
  /\ UNCHANGED <<history, now, running, is_processing, enq, inst, locks,
                 config, disk, xfer, upsets, started>>

\* "if not file_path.exists()"
ProcExists(w) ==
  /\ proc[w].pc = "exists"
  /\ \E exists \in BOOLEAN : GoProc(w, IF exists THEN "dedup" ELSE "missing")
  /\ UNCHANGED <<queue, history, now, running, is_processing, enq, inst, locks,
                 config, disk, xfer, upsets, started>>

\* the missing-file branch counting the pass as a failed attempt
ProcMissingCounted(w) ==
  /\ proc[w].pc = "missing"
  /\ queue' = mark_as_failed(queue, proc[w].task.id, MissingMsg,
                             proc[w].task.retry_count + 1)
  /\ GoProc(w, "finally")
  /\ UNCHANGED <<history, now, running, is_processing, enq, inst, locks,
                 config, disk, xfer, upsets, started>>

\* "UploadQueue.mark_as_failed(task.id, "文件不存在", task.retry_count)"
ProcMissing(w) ==
  /\ proc[w].pc = "missing"
  /\ queue' = mark_as_failed(queue, proc[w].task.id, MissingMsg,
                             proc[w].task.retry_count)
  /\ GoProc(w, "finally")
  /\ UNCHANGED <<history, now, running, is_processing, enq, inst, locks,
                 config, disk, xfer, upsets, started>>

\* fingerprint = f"{task.file_size}_{task.file_mtime}"
TaskFingerprint(task) == Fingerprint(task.file_size, task.file_mtime)

\* "if UploadHistory.is_uploaded(fingerprint, task.file_size)"
ProcDedup(w) ==
  /\ proc[w].pc = "dedup"
  /\ GoProc(w, IF is_uploaded(history, TaskFingerprint(proc[w].task),
                              proc[w].task.file_size)
               THEN "skip" ELSE "exec")
  /\ UNCHANGED <<queue, history, now, running, is_processing, enq, inst, locks,
                 config, disk, xfer, upsets, started>>

\* the dedup branch: "UploadQueue.mark_as_completed(task.id); return True"
ProcSkip(w) ==
  /\ proc[w].pc = "skip"
  /\ queue' = mark_as_completed(queue, proc[w].task.id)
  /\ GoProc(w, "finally")
  /\ UNCHANGED <<history, now, running, is_processing, enq, inst, locks,
                 config, disk, xfer, upsets, started>>

\* _execute_task fails on an unknown operation type, and _do_copy without a
\* local destination
CanSucceed(task) ==
  /\ task.operation_type \in {"upload", "copy"}
  /\ task.operation_type = "copy" => task.dest_local \notin {NoneVal, ""}

\* the observer's counter, which stops at MaxCount
Count(n) == IF n < MaxCount THEN n + 1 ELSE n

\* "success, error_msg = self._execute_task(task, file_path)"
ProcExec(w) ==
  /\ proc[w].pc = "exec"
  /\ LET id == proc[w].task.id IN
     \/ /\ CanSucceed(proc[w].task)
        /\ xfer' = [xfer EXCEPT ![id].calls = Count(@), ![id].oks = Count(@)]
        /\ GoProc(w, "ok")
     \/ \E m \in Msgs :
          /\ xfer' = [xfer EXCEPT ![id].calls = Count(@)]
          /\ proc' = [proc EXCEPT ![w].pc = "fail", ![w].msg = m]
  /\ UNCHANGED <<queue, history, now, running, is_processing, enq, inst, locks,
                 config, disk, upsets, started>>

\* success: "UploadQueue.mark_as_completed(task.id)"
ProcOk(w) ==
  /\ proc[w].pc = "ok"
  /\ queue' = mark_as_completed(queue, proc[w].task.id)
  /\ GoProc(w, "record")
  /\ UNCHANGED <<history, now, running, is_processing, enq, inst, locks,
                 config, disk, xfer, upsets, started>>

\* success: "UploadHistory.record_upload(...)"
ProcRecord(w) ==
  /\ proc[w].pc = "record"
  /\ LET task == proc[w].task IN
       history' = record_upload(history, TaskFingerprint(task), task.file_size,
                                task.file_path, task.operation_type,
                                task.dest_remote, task.dest_local, now)
  /\ GoProc(w, IF proc[w].task.delete_source THEN "delete" ELSE "finally")
  /\ UNCHANGED <<queue, now, running, is_processing, enq, inst, locks, config,
                 disk, xfer, upsets, started>>

\* success: "self._delete_source_file(file_path, task.monitor_path)", which
\* touches the file system alone and swallows its exceptions
ProcDelete(w) ==
  /\ proc[w].pc = "delete"
  /\ disk' = delete_source_file(disk, proc[w].task.file_path,
                                proc[w].task.monitor_path)
  /\ GoProc(w, "finally")
  /\ UNCHANGED <<queue, history, now, running, is_processing, enq, inst, locks,
                 config, xfer, upsets, started>>

\* the retry test off by one: a fourth attempt is granted
RetryAllowedOffByOne(retry_count) == retry_count <= MaxRetry

\* the retry test giving up one attempt early
RetryAllowedTooFew(retry_count) == retry_count < MaxRetry - 1

\* "if retry_count < 3"
RetryAllowed(retry_count) == retry_count < MaxRetry

\* failure: "retry_count = task.retry_count + 1", then pending again or failed
ProcFail(w) ==
  /\ proc[w].pc = "fail"
  /\ LET id == proc[w].task.id
         retry_count == proc[w].task.retry_count + 1
     IN queue' = IF RetryAllowed(retry_count)
                 THEN mark_as_pending_retry(queue, id, retry_count)
                 ELSE mark_as_failed(queue, id, proc[w].msg, retry_count)
  /\ GoProc(w, "finally")
  /\ UNCHANGED <<history, now, running, is_processing, enq, inst, locks,
                 config, disk, xfer, upsets, started>>

\* an exception that leaves the call without running the finally clause
ProcFaultNoFinally(w) ==
  /\ proc[w].pc \in {"get", "mark", "missing", "dedup", "skip", "ok", "record",
                      "fail"}
  /\ upsets < MaxUpsets
  /\ upsets' = upsets + 1
  /\ proc' = [proc EXCEPT ![w] = IdleProc]
  /\ UNCHANGED <<queue, history, now, running, is_processing, enq, inst, locks,
                 config, disk, xfer, started>>

\* a store operation raises: "except Exception", nothing was written
ProcFault(w) ==
  /\ proc[w].pc \in {"get", "mark", "missing", "dedup", "skip", "ok", "record",
                      "fail"}
  /\ upsets < MaxUpsets
  /\ upsets' = upsets + 1
  /\ GoProc(w, "finally")
  /\ UNCHANGED <<queue, history, now, running, is_processing, enq, inst, locks,
                 config, disk, xfer, started>>

\* "finally: self.is_processing = False", and the call returns
ProcFinally(w) ==
  /\ proc[w].pc = "finally"
  /\ is_processing' = [is_processing EXCEPT ![inst[w]] = FALSE]
  /\ proc' = [proc EXCEPT ![w] = IdleProc]
  /\ UNCHANGED <<queue, history, now, running, enq, inst, locks, config, disk,
                 xfer, upsets, started>>

\* --------------------------------------------------------------- Enqueuer
\* the recycle-bin and hidden-file tests and re.search(r"BDMV[/\\]STREAM",
\* event_path, re.IGNORECASE) of enqueue_file
Excluded(path) ==
  LET event_path == PathStr(PathOf(path))
      bdmv == <<"b", "d", "m", "v">>
      stream == <<"s", "t", "r", "e", "a", "m">>
  IN \/ Contains(event_path, <<"/", "@", "R", "e", "c", "y", "c", "l", "e", "/">>)
     \/ Contains(event_path, <<"/", "#", "r", "e", "c", "y", "c", "l", "e", "/">>)
     \/ Contains(event_path, <<"/", ".">>)
     \/ Contains(event_path, <<"/", "@", "e", "a", "D", "i", "r">>)
     \/ \E sep \in {"/", "\\"} :
          Contains(Lower(event_path), bdmv \o <<sep>> \o stream)

\* the event paths the exclusion rules drop, worked out once
ExcludedPaths == { p \in EventPaths : Excluded(p) }

\* leaving the "with directory_upload_dict[...]" block and returning
EnqReturn(e) ==
  /\ enq' = [enq EXCEPT ![e] = IdleEnq]
  /\ locks' = [locks EXCEPT ![inst[e]] =
                [p \in EventPaths |-> IF @[p] = e THEN 0 ELSE @[p]]]

\* a watcher event calls enqueue_file(event_path, mon_path) and the file is
\* there ("if not file_path.exists(): return" otherwise)
EnqCall(e, p) ==
  /\ running
  /\ enq[e].pc = "idle"
  /\ enq' = [enq EXCEPT ![e].pc = "lock", ![e].path = p]
  /\ UNCHANGED <<queue, history, now, running, is_processing, proc, inst,
                 locks, config, disk, xfer, upsets>>

\* the per-path lock is taken, the exclusion rules are applied and
\* is_file_stable takes its first sample
EnqLock(e) ==
  /\ enq[e].pc = "lock"
  /\ locks[inst[e]][enq[e].path] = 0
  /\ \E st \in FileVersions(enq[e].path) \cup {NoFile} :
       IF enq[e].path \in ExcludedPaths \/ st = NoFile
       THEN /\ enq' = [enq EXCEPT ![e] = IdleEnq]
            /\ UNCHANGED locks
       ELSE /\ locks' = [locks EXCEPT ![inst[e]][enq[e].path] = e]
            /\ enq' = [enq EXCEPT ![e].pc = "sample", ![e].size1 = st.size]
  /\ UNCHANGED <<queue, history, now, running, is_processing, proc, config,
                 disk, xfer, upsets, started, inst>>

\* "stable = (size1 == size2 and size1 > 0)"
Stable(size1, size2) == size1 = size2 /\ size1 > 0

\* is_file_stable after the sleep: the second sample
EnqSample(e) ==
  /\ enq[e].pc = "sample"
  /\ \E st \in FileVersions(enq[e].path) \cup {NoFile} :
       IF st # NoFile /\ Stable(enq[e].size1, st.size)
       THEN /\ enq' = [enq EXCEPT ![e].pc = "stat"]
            /\ UNCHANGED locks
       ELSE EnqReturn(e)
  /\ UNCHANGED <<queue, history, now, running, is_processing, proc, config,
                 disk, xfer, upsets, started, inst>>

\* "stat = file_path.stat()"; a vanished file raises and the call returns
EnqStat(e) ==
  /\ enq[e].pc = "stat"
  /\ \E st \in FileVersions(enq[e].path) \cup {NoFile} :
       IF st # NoFile
       THEN /\ enq' = [enq EXCEPT ![e].pc = "hist", ![e].stat = st]
            /\ UNCHANGED locks
       ELSE EnqReturn(e)
  /\ UNCHANGED <<queue, history, now, running, is_processing, proc, config,
                 disk, xfer, upsets, started, inst>>

\* the fingerprint built from the modification time as stat() gave it
StatFingerprintRaw(st) == Fingerprint(st.size, st.mtime10)

\* fingerprint = f"{file_size}_{int(file_mtime)}"
StatFingerprint(st) == Fingerprint(st.size, IntTrunc(st.mtime10))

\* "if UploadHistory.is_uploaded(fingerprint, file_size): return"
EnqHist(e) ==
  /\ enq[e].pc = "hist"
  /\ IF is_uploaded(history, StatFingerprint(enq[e].stat), enq[e].stat.size)
     THEN EnqReturn(e)
     ELSE /\ enq' = [enq EXCEPT ![e].pc = "inq"]
          /\ UNCHANGED locks
  /\ UNCHANGED <<queue, history, now, running, is_processing, proc, config,
                 disk, xfer, upsets, started, inst>>

\* "if UploadQueue.exists_in_queue(str(file_path)): return"
EnqInQueue(e) ==
  /\ enq[e].pc = "inq"
  /\ IF exists_in_queue(queue, enq[e].path)
     THEN EnqReturn(e)
     ELSE /\ enq' = [enq EXCEPT ![e].pc = "create"]
          /\ UNCHANGED locks
  /\ UNCHANGED <<queue, history, now, running, is_processing, proc, config,
                 disk, xfer, upsets, started, inst>>

\* sections 4-6 of enqueue_file: configuration match, classification and
\* "UploadQueue.create_task(...)" for the file whose stat() gave st
NewTask(q, cfg, path, st, t) ==
  LET mon == MonOf(path)
      op == Classify(cfg, path, mon)
      item == cfg.paths[MatchConfig(cfg, mon)]
  IN create_task(q, path, st.size, st.mtime10, mon, op,
                 IF op = "upload" THEN item.dest_remote ELSE NoneVal,
                 IF op = "copy" THEN item.dest_local ELSE NoneVal,
                 item.delete, t)

\* the file is dropped by the classification, or the unique index on file_path
\* makes create_task raise (enqueue_file swallows the exception)
NoInsert(q, cfg, path) ==
  \/ Classify(cfg, path, MonOf(path)) = "skip"
  \/ UniqueViolation(q, path)

\* the last step of enqueue_file
EnqCreate(e) ==
  /\ enq[e].pc = "create"
  /\ IF NoInsert(queue, config, enq[e].path)
     THEN UNCHANGED <<queue, xfer, now>>
     ELSE /\ \E t \in 0..MaxTime :
               /\ ReadClock(t)
               /\ queue' = NewTask(queue, config, enq[e].path, enq[e].stat, t)
          /\ xfer' = Append(xfer, [calls |-> 0, oks |-> 0])
  /\ EnqReturn(e)
  /\ UNCHANGED <<history, running, is_processing, proc, config, disk, upsets,
                 started, inst>>

\* enqueue_file(event_path, mon_path) run to its end on a file that does not
\* change meanwhile; a pass that stops at a check changes nothing
enqueue_file(p) ==
  /\ running
  /\ p \notin ExcludedPaths
  /\ ~exists_in_queue(queue, p)
  /\ ~NoInsert(queue, config, p)
  /\ \E st \in FileVersions(p), t \in 0..MaxTime :
       /\ Stable(st.size, st.size)
       /\ ~is_uploaded(history, StatFingerprint(st), st.size)
       /\ ReadClock(t)
       /\ queue' = NewTask(queue, config, p, st, t)
  /\ xfer' = Append(xfer, [calls |-> 0, oks |-> 0])
  /\ UNCHANGED <<history, running, is_processing, proc, enq, inst, locks,
                 config, disk, upsets, started>>

\* ---------------------------------------------------------- specifications
\* the two enqueuer threads run in one process, or one in each of two
\* instances that share the tables
InitEnq ==
  /\ queue = <<>>
  /\ history = <<>>
  /\ now = 0
  /\ running = FALSE
  /\ is_processing = [n \in Instances |-> FALSE]
  /\ proc = [w \in Workers |-> IdleProc]
  /\ enq = [e \in Enqueuers |-> IdleEnq]
  /\ inst \in { [e \in Enqueuers |-> 1], [e \in Enqueuers |-> e] }
  /\ locks = [n \in Instances |-> [p \in EventPaths |-> 0]]
  /\ config = DefaultConfig
  /\ disk = DefaultDisk
  /\ xfer = <<>>
  /\ upsets = 0
  /\ started = 0

\* a watcher event for one of the files
EnqCallCounted(e) ==
  /\ started < MaxPasses
  /\ started' = started + 1
  /\ \E p \in Paths : EnqCall(e, p)

\* a process starting under any of the configurations
InitFilter ==
  /\ queue = <<>>
  /\ history = <<>>
  /\ now = 0
  /\ running = FALSE
  /\ is_processing = [n \in Instances |-> FALSE]
  /\ proc = [w \in Workers |-> IdleProc]
  /\ enq = [e \in Enqueuers |-> IdleEnq]
  /\ inst = [e \in Enqueuers |-> 1]
  /\ locks = [n \in Instances |-> [p \in EventPaths |-> 0]]
  /\ config \in Configs
  /\ disk = DefaultDisk
  /\ xfer = <<>>
  /\ upsets = 0
  /\ started = 0

\* a watcher event for any file below a monitor root, hidden ones included
EnqCallEvent(e) ==
  /\ started < MaxPasses
  /\ started' = started + 1
  /\ \E p \in EventPaths : EnqCall(e, p)

\* source files of tasks with delete_source, at two depths
DeletePaths == {"/del/s/b.srt", "/del/s/t/d.srt"}
\* monitor roots the files lie under, one written with a trailing slash
DeleteRoots == {"/del", "/del/", "/del/s"}
\* other files and empty directories that can be around
OtherFiles == {"/del/s/o.nfo", "/del/k.nfo"}
OtherDirs == {"/del/s/e", "/del/e"}

\* the trees around a source file
TreesAround(path) ==
  { TreeOf({PathOf(path)} \cup { PathOf(f) : f \in fs },
           { PathOf(x) : x \in ds }) :
      fs \in SUBSET OtherFiles, ds \in SUBSET OtherDirs }

\* the row of a copied file with delete_source, as enqueue_file stored it for
\* an event below the monitor root
DeleteTask(path, root) ==
  [NewTask(<<>>, DefaultConfig, "/del/s/b.srt", [size |-> 1, mtime10 |-> 15],
           0)[1] EXCEPT !.file_path = path, !.monitor_path = root]

\* process_one_task has transferred a file, marked its row and recorded it,
\* and is about to delete the source
InitDelete ==
  \E path \in DeletePaths, root \in DeleteRoots :
    LET task == DeleteTask(path, root) IN
    /\ queue = <<[task EXCEPT !.status = "completed"]>>
    /\ history = record_upload(<<>>, TaskFingerprint(task), task.file_size,
                               task.file_path, task.operation_type,
                               task.dest_remote, task.dest_local, 0)
    /\ now = 0
    /\ running = TRUE
    /\ is_processing = [n \in Instances |-> n = 1]
    /\ proc = [w \in Workers |->
                IF w = 1 THEN [pc |-> "delete", task |-> task, msg |-> NoneVal]
                         ELSE IdleProc]
    /\ enq = [e \in Enqueuers |-> IdleEnq]
    /\ inst = [e \in Enqueuers |-> 1]
    /\ locks = [n \in Instances |-> [p \in EventPaths |-> 0]]
    /\ config = DefaultConfig
    /\ disk \in TreesAround(path)
    /\ xfer = <<[calls |-> 1, oks |-> 1]>>
    /\ upsets = 0
    /\ started = 0

\* the call deletes and returns
NextDelete ==
  \/ ProcDelete(1)
  \/ ProcFinally(1)

SpecDelete == InitDelete /\ [][NextDelete]_vars

\* status, retry_count and error_message as the operations leave them in a row
RowStates ==
  [status : {"pending", "processing", "completed"}, retry_count : 0..2,
   error_message : {NoneVal}]
    \cup [status : {"failed"}, retry_count : 0..2, error_message : {MissingMsg}]
    \cup [status : {"failed"}, retry_count : {MaxRetry}, error_message : Msgs]

\* the row enqueue_file created at second 0 as row id for the file, after the
\* processor brought it to rs
StoredRow(id, path, st, rs) ==
  [NewTask(<<>>, DefaultConfig, path, st, 0)[1] EXCEPT
     !.id = id, !.status = rs.status, !.retry_count = rs.retry_count,
     !.error_message = rs.error_message]

\* the rows a path can have
RowsOf(id, path) ==
  { StoredRow(id, path, st, rs) :
      st \in { v \in FileVersions(path) : v.size > 0 }, rs \in RowStates }

\* the tables a stopped process can leave behind: at most one row per path
Tables ==
  {<<>>}
    \cup { <<r>> : r \in UNION { RowsOf(1, p) : p \in Paths } }
    \cup UNION { { <<r1, r2>> : r1 \in RowsOf(1, pp[1]), r2 \in RowsOf(2, pp[2]) } :
                   pp \in { x \in Paths \X Paths : x[1] # x[2] } }

\* what the observer counted for a row: one transfer call per stored failure,
\* one more for the call a Processing row was stopped in or a Completed row
\* succeeded with
ObservedOf(row) ==
  [calls |-> IF row.status \in {"processing", "completed"}
             THEN row.retry_count + 1 ELSE row.retry_count,
   oks |-> IF row.status = "completed" THEN 1 ELSE 0]

\* a process about to start on the table an earlier run left behind
InitReset ==
  /\ queue \in Tables
  /\ history = <<>>
  /\ now = 0
  /\ running = FALSE
  /\ is_processing = [n \in Instances |-> FALSE]
  /\ proc = [w \in Workers |-> IdleProc]
  /\ enq = [e \in Enqueuers |-> IdleEnq]
  /\ inst = [e \in Enqueuers |-> 1]
  /\ locks = [n \in Instances |-> [p \in EventPaths |-> 0]]
  /\ config = DefaultConfig
  /\ disk = DefaultDisk
  /\ xfer = [i \in Ids(queue) |-> ObservedOf(queue[i])]
  /\ upsets = 0
  /\ started = 0

\* the process starts, stops and starts again
NextReset ==
  \/ reset_stale_tasks
  \/ Crash

SpecReset == InitReset /\ [][NextReset]_vars

\* the history row process_one_task records at second t for a file
HistoryRowOf(path, st, t) ==
  LET task == NewTask(<<>>, DefaultConfig, path, st, 0)[1]
  IN record_upload(<<>>, TaskFingerprint(task), task.file_size,
                   task.file_path, task.operation_type, task.dest_remote,
                   task.dest_local, t)[1]

\* completion times around the cutoffs of 0..MaxDays days
CleanupTimes ==
  { d * Day + k : d \in 0..MaxDays, k \in {-1, 0, 1} } \cap Nat

\* history tables of MaxHistory rows, appended as the clock went on
Histories(upto) ==
  LET rows == UNION { { HistoryRowOf(p, st, t) :
                          st \in { v \in FileVersions(p) : v.size > 0 },
                          t \in { c \in CleanupTimes : c <= upto } } :
                      p \in Paths }
  IN { h \in [1..MaxHistory -> rows] :
         \A k \in 1..(MaxHistory - 1) :
           h[k].completed_at <= h[k + 1].completed_at }

\* fractions of a second the clock can show, in tenths
Fractions == {0, 5}

\* a running process with a filled history table, MaxDays days or one second
\* more after the epoch
InitCleanup ==
  /\ now \in {MaxDays * Day, MaxDays * Day + 1}
  /\ history \in Histories(now)
  /\ queue = <<>>
  /\ running = TRUE
  /\ is_processing = [n \in Instances |-> FALSE]
  /\ proc = [w \in Workers |-> IdleProc]
  /\ enq = [e \in Enqueuers |-> IdleEnq]
  /\ inst = [e \in Enqueuers |-> 1]
  /\ locks = [n \in Instances |-> [p \in EventPaths |-> 0]]
  /\ config = DefaultConfig
  /\ disk = DefaultDisk
  /\ xfer = <<>>
  /\ upsets = 0
  /\ started = 0

\* the trigger calls UploadHistory.cleanup_old_records(days) within second now
Cleanup ==
  /\ running
  /\ \E days \in 0..MaxDays, f \in Fractions :
       history' = cleanup_old_records(history, days, now * 10 + f)
  /\ UNCHANGED <<queue, now, running, is_processing, proc, enq, inst, locks,
                 config, disk, xfer, upsets, started>>

NextCleanup == Cleanup

SpecCleanup == InitCleanup /\ [][NextCleanup]_vars

Enqueue(e) ==
  \/ EnqLock(e)
  \/ EnqSample(e)
  \/ EnqStat(e)
  \/ EnqHist(e)
  \/ EnqInQueue(e)
  \/ EnqCreate(e)

Process(w) ==
  \/ ProcFree(w)
  \/ ProcClaim(w)
  \/ ProcGet(w)
  \/ ProcMark(w)
  \/ ProcExists(w)
  \/ ProcMissing(w)
  \/ ProcDedup(w)
  \/ ProcSkip(w)
  \/ ProcExec(w)
  \/ ProcOk(w)
  \/ ProcRecord(w)
  \/ ProcDelete(w)
  \/ ProcFail(w)
  \/ ProcFinally(w)

\* a call of process_one_task made by the one trigger thread
ProcCallSerial(w) ==
  /\ ProcCall(w)
  /\ UNCHANGED started

\* one trigger thread: process_one_task calls never overlap; the process can
\* crash and restart, store operations can raise
Next ==
  \/ reset_stale_tasks
  \/ Crash
  \/ \E p \in Paths : enqueue_file(p)
  \/ ProcCallSerial(1)
  \/ Process(1)
  \/ ProcFault(1)

Spec == Init /\ [][Next]_vars

\* the scheduler keeps calling process_one_task, a started call runs to its
\* end and a stopped process is started again
SpecLive ==
  /\ Init
  /\ [][Next]_vars
  /\ WF_vars(ProcCallSerial(1))
  /\ WF_vars(Process(1))
  /\ WF_vars(reset_stale_tasks)

\* a call of process_one_task that is counted
ProcCallCounted(w) ==
  /\ started < MaxCalls
  /\ started' = started + 1
  /\ ProcCall(w)

\* a call of process_one_task made while enqueue passes run step by step
ProcCallPass(w) ==
  /\ started < MaxPasses
  /\ started' = started + 1
  /\ ProcCall(w)

\* watcher threads run enqueue_file step by step next to the one trigger
\* thread; MaxPasses handler calls are made in all
NextEnq ==
  \/ reset_stale_tasks
  \/ \E e \in Enqueuers : EnqCallCounted(e) \/ Enqueue(e)
  \/ ProcCallPass(1)
  \/ Process(1)

SpecEnq == InitEnq /\ [][NextEnq]_vars

\* several threads call process_one_task on the same processor of one process
NextConc ==
  \/ reset_stale_tasks
  \/ \E p \in Paths : enqueue_file(p)
  \/ \E w \in Workers : ProcCallCounted(w) \/ Process(w) \/ ProcBusy(w)

SpecConc == Init /\ [][NextConc]_vars

\* the life of the two tables in one process: enqueue passes step by step,
\* the trigger thread and the history cleanup; MaxPasses handler calls in all
NextLife ==
  \/ reset_stale_tasks
  \/ EnqCallCounted(1)
  \/ Enqueue(1)
  \/ ProcCallPass(1)
  \/ Process(1)
  \/ Cleanup

SpecLife == Init /\ [][NextLife]_vars

\* the history lookups of one process: enqueue passes step by step and the
\* trigger thread, with store faults, crashes and restarts; MaxPasses handler
\* calls in all
NextStores ==
  \/ reset_stale_tasks
  \/ Crash
  \/ EnqCallCounted(1)
  \/ Enqueue(1)
  \/ ProcCallPass(1)
  \/ Process(1)
  \/ ProcFault(1)

SpecStores == Init /\ [][NextStores]_vars

\* one watcher thread and the trigger thread under any configuration;
\* MaxPasses handler calls in all
NextFilter ==
  \/ reset_stale_tasks
  \/ EnqCallEvent(1)
  \/ Enqueue(1)
  \/ ProcCallPass(1)
  \/ Process(1)

SpecFilter == InitFilter /\ [][NextFilter]_vars

\* two plugin instances, each with its own processor object and trigger
\* thread, on the same two tables
InitMulti ==
  /\ queue = <<>>
  /\ history = <<>>
  /\ now = 0
  /\ running = FALSE
  /\ is_processing = [n \in Instances |-> FALSE]
  /\ proc = [w \in Workers |-> IdleProc]
  /\ enq = [e \in Enqueuers |-> IdleEnq]
  /\ inst = [w \in Workers |-> w]
  /\ locks = [n \in Instances |-> [p \in EventPaths |-> 0]]
  /\ config = DefaultConfig
  /\ disk = DefaultDisk
  /\ xfer = <<>>
  /\ upsets = 0
  /\ started = 0

\* each instance's trigger calls its own process_one_task, never overlapping
\* its own calls
NextMulti ==
  \/ reset_stale_tasks
  \/ \E p \in Paths : enqueue_file(p)
  \/ \E w \in Workers : ProcCallCounted(w) \/ Process(w)

SpecMulti == InitMulti /\ [][NextMulti]_vars

\* ------------------------------------------------------------------ claims
Live == {"pending", "processing"}
Terminal == {"completed", "failed"}

InFlight(w) == proc[w].pc \notin {"idle", "enter"}

\* C2: at most one process_one_task invocation is past the busy test at a
\* time, at most one task is Processing and at most one transfer is executing.
C2_SingleFlight ==
  /\ Cardinality({ w \in Workers : InFlight(w) }) <= 1
  /\ Cardinality({ i \in Ids(queue) : queue[i].status = "processing" }) <= 1
  /\ Cardinality({ w \in Workers : proc[w].pc = "exec" }) <= 1

\* C3: when process_one_task selects a task, no task created before it (a row
\* with a smaller id) is Pending, also when both were created in one second.
C3_Fifo ==
  [][\A w \in Workers :
       (proc[w].pc = "get" /\ proc'[w].pc = "mark") =>
         \A a \in Ids(queue) :
           a < proc'[w].task.id => queue[a].status # "pending"]_vars

\* C4: a task starts with retry_count 0; every failed pass raises the stored
\* retry_count by exactly one, leaves the task Pending while the new count is
\* 1 or 2 and makes it Failed at 3, storing that third failure's message.
C4_ThreeFailures ==
  [][/\ \A i \in Ids(queue') \ Ids(queue) : queue'[i].retry_count = 0
     /\ \A w \in Workers :
          (proc[w].pc = "fail" /\ proc'[w].pc = "finally" /\ upsets' = upsets) =>
            LET old == queue[proc[w].task.id]
                new == queue'[proc[w].task.id]
            IN /\ new.retry_count = old.retry_count + 1
               /\ new.retry_count \in 1..3
               /\ new.retry_count < 3 =>
                    new.status = "pending" /\ new.error_message = NoneVal
               /\ new.retry_count = 3 =>
                    new.status = "failed" /\ new.error_message = proc[w].msg]_vars

\* a task failed for good after three failed transfers
C4_Witness ==
  \E i \in Ids(queue) :
    /\ queue[i].status = "failed"
    /\ queue[i].retry_count = 3
    /\ queue[i].error_message \in Msgs
    /\ xfer[i].calls = 3 /\ xfer[i].oks = 0

\* C5: a Failed task has retry_count >= 3 or carries the source-missing
\* message written by the missing-file branch.
C5_FailedOnlyWhenExhausted ==
  \A i \in Ids(queue) :
    queue[i].status = "failed" =>
      queue[i].retry_count >= 3 \/ queue[i].error_message = MissingMsg

\* one task failed after its retries, another for its missing source file
C5_Witness ==
  \E i, j \in Ids(queue) :
    /\ queue[i].status = "failed" /\ queue[i].retry_count = 3
    /\ queue[j].status = "failed" /\ queue[j].retry_count < 3
    /\ queue[j].error_message = MissingMsg

\* C6: the transfer of a task's file succeeds at most once, whatever crashes
\* and restarts happen.
C6_NoDuplicateTransfer == \A i \in Ids(queue) : xfer[i].oks <= 1

\* C7: for every file path at most one task row with that path is Pending or
\* Processing, also while two enqueue passes for the same path overlap.
C7_OneLiveRowPerPath ==
  \A p \in Paths :
    Cardinality({ i \in Ids(queue) : /\ queue[i].file_path = p
                                    /\ queue[i].status \in Live }) <= 1

\* two passes for one path overlapped: one has inserted the row, the other got
\* past both dedup checks before that and is about to insert
C7_Witness ==
  \E e \in Enqueuers :
    /\ enq[e].pc = "create"
    /\ started = 2
    /\ \E i \in Ids(queue) : /\ queue[i].file_path = enq[e].path
                             /\ queue[i].status = "pending"

\* C8: with the trigger calling process_one_task again and again, transfers
\* returning and finitely many restarts, a task that is Pending or Processing
\* is Completed or Failed at some later time.
C8_Liveness ==
  \A i \in 1..Cardinality(Paths) :
    (i \in Ids(queue) /\ queue[i].status \in Live)
      ~> (i \in Ids(queue) /\ queue[i].status \in Terminal)

\* the history table holds a row with the task's fingerprint and size
Historized(task) ==
  \E k \in 1..Len(history) :
    /\ history[k].file_fingerprint
         = ToStr(task.file_size) \o <<"_">> \o ToStr(task.file_mtime)
    /\ history[k].file_size = task.file_size

\* C9: a dequeued task whose source file exists and whose fingerprint and size
\* are in the history table is Processing when the history is looked up, is
\* then marked Completed by the same call, and no transfer is started for it.
C9_DedupSkipsTransfer ==
  [][\A w \in Workers :
       LET id == proc[w].task.id IN
       /\ (proc[w].pc = "dedup" /\ proc'[w].pc # "dedup" /\ upsets' = upsets
            /\ Historized(proc[w].task)) =>
             /\ queue[id].status = "processing"
             /\ proc'[w].pc = "skip"
             /\ proc'[w].task = proc[w].task
             /\ queue' = queue /\ xfer' = xfer
       /\ (proc[w].pc = "skip" /\ proc'[w].pc # "skip" /\ upsets' = upsets) =>
             /\ Historized(proc[w].task)
             /\ queue[id].status = "processing"
             /\ queue'[id].status = "completed"
             /\ proc'[w].pc = "finally"
             /\ xfer' = xfer /\ history' = history]_vars

\* a task was completed by the dedup branch without any transfer call
C9_Witness ==
  \E i \in Ids(queue) :
    /\ queue[i].status = "completed"
    /\ xfer[i].calls = 0
    /\ Historized(queue[i])

\* C10: an enqueue pass that inserts creates one Pending row with retry_count 0
\* whose fingerprint is the one computed from the file's stat(), for a path
\* without a row and a fingerprint without a history row; the successful pass
\* marks the Processing row Completed and then appends one history row with
\* the task's fingerprint, size and path; so an unchanged file is not
\* enqueued again.
C10_HappyPath ==
  [][/\ Len(queue') \in {Len(queue), Len(queue) + 1}
     /\ \A i \in Ids(queue') \ Ids(queue) :
          LET new == queue'[i] IN
          /\ new.status = "pending" /\ new.retry_count = 0
          /\ \A j \in Ids(queue) : queue[j].file_path # new.file_path
          /\ \E st \in FileVersions(new.file_path) :
               /\ st.size = new.file_size
               /\ ToStr(new.file_size) \o <<"_">> \o ToStr(new.file_mtime)
                    = ToStr(st.size) \o <<"_">> \o ToStr(st.mtime10 \div 10)
          /\ ~Historized(new)
     /\ \A w \in Workers :
          LET id == proc[w].task.id IN
          /\ (proc[w].pc = "ok" /\ proc'[w].pc # "ok" /\ upsets' = upsets) =>
                /\ queue[id].status = "processing"
                /\ queue'[id].status = "completed"
                /\ xfer[id].oks >= 1
                /\ proc'[w].pc = "record"
          /\ (proc[w].pc = "record" /\ proc'[w].pc # "record"
               /\ upsets' = upsets) =>
                /\ Len(history') = Len(history) + 1
                /\ SubSeq(history', 1, Len(history)) = history
                /\ LET h == history'[Len(history')] IN
                     /\ h.file_fingerprint
                          = ToStr(queue[id].file_size) \o <<"_">>
                              \o ToStr(queue[id].file_mtime)
                     /\ h.file_size = queue[id].file_size
                     /\ h.file_path = queue[id].file_path
     /\ (Len(history') # Len(history)) =>
          \E w \in Workers : proc[w].pc = "record"]_vars

\* a task completed by one successful transfer, with its history row
C10_Witness ==
  \E i \in Ids(queue) :
    /\ queue[i].status = "completed"
    /\ queue[i].retry_count = 0
    /\ xfer[i].calls = 1 /\ xfer[i].oks = 1
    /\ \E k \in 1..Len(history) :
         /\ history[k].file_path = queue[i].file_path
         /\ history[k].file_size = queue[i].file_size
         /\ history[k].file_fingerprint
              = ToStr(queue[i].file_size) \o <<"_">>
                  \o ToStr(queue[i].file_mtime)

\* C11: a process_one_task call that finds the busy flag set returns at once:
\* the task table, the history table and the flag are as before, so the claim
\* of the call in flight is still held.
C11_BusyCallIsNoOp ==
  [][\A w \in Workers :
       (proc[w].pc = "enter" /\ is_processing[inst[w]]
        /\ proc'[w] # proc[w]) =>
         /\ proc'[w] = IdleProc
         /\ queue' = queue
         /\ history' = history
         /\ xfer' = xfer
         /\ is_processing' = is_processing
         /\ \A v \in Workers \ {w} : proc'[v] = proc[v]]_vars

\* a call arrives while the other call's transfer is executing
C11_Witness ==
  \E w, v \in Workers :
    /\ w # v
    /\ proc[w].pc = "enter"
    /\ inst[v] = inst[w]
    /\ is_processing[inst[w]]
    /\ proc[v].pc = "exec"
    /\ queue[proc[v].task.id].status = "processing"

\* C12: the busy flag is set only while a process_one_task call that set it
\* has not returned yet: every call releases it on return, whatever the
\* outcome, so no call is turned away on account of a call that has returned.
C12_FlagReleasedOnReturn ==
  /\ \A n \in Instances :
       is_processing[n] =>
         \E w \in Workers : /\ inst[w] = n
                            /\ proc[w].pc \notin {"idle", "enter", "claim"}
  /\ \A w \in Workers : proc[w].pc = "enter" => ~is_processing[inst[w]]

\* a call ended by a store fault has returned: its row is still Processing,
\* the flag is clear
C12_Witness ==
  /\ running
  /\ upsets = 1
  /\ proc[1].pc = "idle"
  /\ ~is_processing[inst[1]]
  /\ \E i \in Ids(queue) : queue[i].status = "processing"

\* C13: a dequeued task whose source file is gone is marked Failed by the same
\* call with the fixed message and its retry_count as it was; no transfer is
\* started and no history row is written on the way; and a Failed row is
\* never touched again.
C13_MissingSourceFails ==
  [][/\ \A w \in Workers :
          LET id == proc[w].task.id IN
          /\ (proc[w].pc = "exists" /\ proc'[w].pc = "missing") =>
                /\ queue[id].status = "processing"
                /\ queue' = queue /\ xfer' = xfer /\ history' = history
          /\ (proc[w].pc = "missing" /\ proc'[w].pc # "missing"
               /\ upsets' = upsets) =>
                /\ queue'[id].status = "failed"
                /\ queue'[id].error_message = MissingMsg
                /\ queue'[id].retry_count = queue[id].retry_count
                /\ \A j \in Ids(queue) \ {id} : queue'[j] = queue[j]
                /\ xfer' = xfer /\ history' = history
                /\ proc'[w].pc = "finally"
     /\ \A i \in Ids(queue) :
          queue[i].status = "failed" => queue'[i] = queue[i]]_vars

\* a task failed one transfer, was retried, and then found its file gone
C13_Witness ==
  \E i \in Ids(queue) :
    /\ queue[i].status = "failed"
    /\ queue[i].error_message = MissingMsg
    /\ queue[i].retry_count = 1
    /\ xfer[i].calls = 1
    /\ proc[1].pc = "idle"

\* C14: in every state and for every path, exists_in_queue(path) is true when
\* a row with that path is Pending or Processing, and false when no row has
\* the path or the row with the path is Completed or Failed.
C14_ExistsInQueue ==
  \A p \in Paths :
    LET rows == { i \in Ids(queue) : queue[i].file_path = p } IN
    /\ (\E i \in rows : queue[i].status = "pending")
         => exists_in_queue(queue, p) = TRUE
    /\ (\E i \in rows : queue[i].status = "processing")
         => exists_in_queue(queue, p) = TRUE
    /\ rows = {} => exists_in_queue(queue, p) = FALSE
    /\ (rows # {} /\ \A i \in rows : queue[i].status \in Terminal)
         => exists_in_queue(queue, p) = FALSE

\* one path has a Processing row, the other a row that is Completed or Failed
C14_Witness ==
  \E i, j \in Ids(queue) :
    /\ queue[i].status = "processing"
    /\ exists_in_queue(queue, queue[i].file_path)
    /\ queue[j].status \in Terminal
    /\ ~exists_in_queue(queue, queue[j].file_path)

\* C15: reset_processing_tasks turns every Processing row Pending and returns
\* the number of rows it changed; Pending, Completed and Failed rows stay as
\* they are and the rows it moves keep retry_count, created_at and
\* error_message; afterwards no row is Processing and a second call changes
\* nothing and returns 0.
C15_ResetProcessing ==
  [][(~running /\ running') =>
       /\ Len(queue') = Len(queue)
       /\ \A i \in Ids(queue) :
            IF queue[i].status = "processing"
            THEN queue'[i] = [queue[i] EXCEPT !.status = "pending"]
            ELSE queue'[i] = queue[i]
       /\ reset_processing_count(queue)
            = Cardinality({ i \in Ids(queue) : queue'[i] # queue[i] })
       /\ \A i \in Ids(queue') : queue'[i].status # "processing"
       /\ reset_processing_count(queue') = 0
       /\ reset_processing_tasks(queue') = queue']_vars

\* the process started on a table with two rows stopped in their transfer,
\* one of them retried twice before, and both are Pending now
C15_Witness ==
  /\ running
  /\ upsets = 0
  /\ Len(queue) = 2
  /\ \A i \in Ids(queue) : /\ queue[i].status = "pending"
                            /\ xfer[i].calls = queue[i].retry_count + 1
  /\ queue[1].retry_count = 2
  /\ queue[2].retry_count = 0

\* C16: cleanup_old_records(d) called within second now deletes exactly the
\* history rows with completed_at < now - d * 86400 and keeps the others, the
\* row completed at the cutoff included, in their order; it returns the number
\* of rows deleted; a second call at the same time returns 0 and deletes
\* nothing.
C16_CleanupOldRecords ==
  \A d \in 0..MaxDays, f \in Fractions :
    LET t10 == now * 10 + f
        after == cleanup_old_records(history, d, t10)
        old == { k \in 1..Len(history) :
                   history[k].completed_at < now - d * 86400 }
    IN /\ after = SelectSeq(history,
                            LAMBDA r : r.completed_at >= now - d * 86400)
       /\ \A k \in 1..Len(history) :
            history[k].completed_at = now - d * 86400
              => \E j \in 1..Len(after) : after[j] = history[k]
       /\ cleanup_count(history, d, t10) = Cardinality(old)
       /\ cleanup_count(history, d, t10) = Len(history) - Len(after)
       /\ cleanup_count(after, d, t10) = 0
       /\ cleanup_old_records(after, d, t10) = after

\* a cleanup deleted an older row and kept the row completed exactly one day
\* before now
C16_Witness ==
  /\ Len(history) \in 1..(MaxHistory - 1)
  /\ history[1].completed_at = now - Day

\* C17: the stored retry_count of a task never decreases, whatever operations
\* run, also when process_one_task calls overlap.
C17_RetryCountMonotone ==
  [][\A i \in Ids(queue) : queue'[i].retry_count >= queue[i].retry_count]_vars

\* C18: whatever calls, crashes and restarts happen, at most three transfers
\* are started for a task, and a task that failed for its transfers did so on
\* its third failed transfer.
C18_BoundedRetries ==
  \A i \in Ids(queue) :
    /\ xfer[i].calls <= 3
    /\ (queue[i].status = "failed" /\ queue[i].error_message \in Msgs)
         => xfer[i].calls - xfer[i].oks = 3

\* a call that has marked its task Processing and not yet written an outcome
Claimed(w) ==
  proc[w].pc \in {"exists", "missing", "dedup", "skip", "exec", "ok", "fail"}

\* C19: with two processor instances, each with its own busy flag, on the same
\* task table, no task is claimed by both: two calls never hold the same task
\* between mark_as_processing and the write of the outcome.
C19_NoDoubleClaim ==
  \A w, v \in Workers :
    (w # v /\ Claimed(w) /\ Claimed(v)) => proc[w].task.id # proc[v].task.id

\* C19 as the persisted state gives it: a call selects a task only while its
\* stored status is Pending, never a Processing, Completed or Failed one, and
\* mark_as_processing then writes Processing whatever the stored status is.
C19_SelectsOnlyPending ==
  [][\A w \in Workers :
       /\ (proc[w].pc = "get" /\ proc'[w].pc = "mark") =>
             /\ queue[proc'[w].task.id].status = "pending"
             /\ proc'[w].task = queue[proc'[w].task.id]
             /\ queue' = queue
       /\ (proc[w].pc = "mark" /\ proc'[w].pc = "exists") =>
             queue'[proc[w].task.id].status = "processing"]_vars

\* one instance holds the older task, the other selected the younger one
C19_Witness ==
  \E w, v \in Workers :
    /\ inst[w] # inst[v]
    /\ proc[w].pc = "exec" /\ proc[w].task.id = 1
    /\ proc[v].pc = "mark" /\ proc[v].task.id = 2
    /\ queue[1].status = "processing"
    /\ queue[1].created_at < queue[2].created_at

\* C20: the task table never holds two rows with the same file_path, in any
\* status: a row is only ever added for a path that has no row, and a row
\* that is Completed or Failed keeps its status, also when the file changed
\* or its history row was removed by cleanup_old_records.
C20_OneRowPerPathForever ==
  [][/\ \A p \in Paths :
          Cardinality({ i \in Ids(queue') : queue'[i].file_path = p }) <= 1
     /\ \A i \in Ids(queue') \ Ids(queue) :
          \A j \in Ids(queue) : queue[j].file_path # queue'[i].file_path
     /\ \A i \in Ids(queue) :
          queue[i].status \in Terminal
            => (i \in Ids(queue') /\ queue'[i].status = queue[i].status)]_vars

\* an enqueue pass for a changed file is about to insert although the path
\* has a Completed row, whose history row a cleanup has removed
C20_Witness ==
  \E i \in Ids(queue) :
    /\ enq[1].pc = "create"
    /\ enq[1].path = queue[i].file_path
    /\ enq[1].stat.size # queue[i].file_size
    /\ queue[i].status = "completed"
    /\ xfer[i].oks = 1
    /\ history = <<>>

\* the configuration entries for the monitor root of a path
EntriesFor(p) ==
  { k \in 1..Len(config.paths) : config.paths[k].src = MonOf(p) }

\* the lower-cased suffix of a path is among the dotted entries of a list
InList(p, value) == Lower(SuffixOf(p)) \in ExtList(value)

\* the filtering check an enqueue pass at its current position stops at, if
\* any; leaving the first position for "idle" is the missing or excluded path,
\* leaving the second the unstable file
StopsAtCheck(e) ==
  LET p == enq[e].path
      st == enq[e].stat
  IN \/ enq[e].pc \in {"lock", "sample"} /\ enq'[e].pc = "idle"
     \/ /\ enq[e].pc = "hist"
        /\ \E k \in 1..Len(history) :
             /\ history[k].file_fingerprint
                  = ToStr(st.size) \o <<"_">> \o ToStr(st.mtime10 \div 10)
             /\ history[k].file_size = st.size
     \/ /\ enq[e].pc = "inq"
        /\ \E i \in Ids(queue) : /\ queue[i].file_path = p
                                 /\ queue[i].status \in Live
     \/ /\ enq[e].pc = "create"
        /\ \/ EntriesFor(p) = {}
           \/ ~InList(p, config.uploadext) /\ ~InList(p, config.copyext)
           \/ /\ InList(p, config.uploadext)
              /\ \E k \in EntriesFor(p) :
                   /\ \A j \in EntriesFor(p) : k <= j
                   /\ config.paths[k].dest_remote = ""
           \/ /\ ~InList(p, config.uploadext)
              /\ InList(p, config.copyext)
              /\ \E k \in EntriesFor(p) :
                   /\ \A j \in EntriesFor(p) : k <= j
                   /\ config.paths[k].dest_local = ""

\* C21: an enqueue pass that stops at a filtering check (missing or excluded
\* path, unstable file, fingerprint in the history, path Pending or
\* Processing, no configuration entry, extension in neither list, matched list
\* without its destination) leaves both tables as they are and returns: the
\* call is over and its lock released; an excluded path always stops.
C21_FilteredPassChangesNothing ==
  [][\A e \in Enqueuers :
       (enq[e].pc # "idle" /\ enq'[e] # enq[e]) =>
         /\ (enq[e].pc = "lock" /\ enq[e].path \in ExcludedPaths) => enq'[e].pc = "idle"
         /\ StopsAtCheck(e) =>
              /\ queue' = queue
              /\ history' = history
              /\ xfer' = xfer
              /\ enq'[e] = IdleEnq
              /\ locks'[inst[e]][enq[e].path] = 0
              /\ upsets' = upsets]_vars

\* a pass for a changed file has reached the queue check while the path's row
\* is Processing and its transfer runs
C21_Witness ==
  /\ enq[1].pc = "inq"
  /\ proc[1].pc = "exec"
  /\ Len(queue) = 1
  /\ queue[1].file_path = enq[1].path
  /\ queue[1].status = "processing"
  /\ queue[1].file_size # enq[1].stat.size

\* the first configuration entry for the monitor root of a path
EntryFor(p) ==
  config.paths[CHOOSE k \in EntriesFor(p) : \A j \in EntriesFor(p) : k <= j]

\* C22: the upload list is tested first. A pass that reaches the insert with a
\* suffix in the upload list inserts an Upload row with the remote destination
\* and no local one when the remote destination is configured, and inserts
\* nothing otherwise, also when the suffix is in the copy list and a local
\* destination is configured; with a suffix in the copy list alone it inserts
\* a Copy row with the local destination and no remote one when the local
\* destination is configured, and nothing otherwise. Every row has the
\* destination of its operation type set and the other one empty.
C22_Classification ==
  [][/\ \A i \in Ids(queue') \ Ids(queue) :
          LET new == queue'[i]
              p == new.file_path
          IN /\ EntriesFor(p) # {}
             /\ IF InList(p, config.uploadext)
                THEN /\ new.operation_type = "upload"
                     /\ new.dest_remote = EntryFor(p).dest_remote
                     /\ new.dest_remote # ""
                     /\ new.dest_local = NoneVal
                ELSE /\ InList(p, config.copyext)
                     /\ new.operation_type = "copy"
                     /\ new.dest_local = EntryFor(p).dest_local
                     /\ new.dest_local # ""
                     /\ new.dest_remote = NoneVal
     /\ \A e \in Enqueuers :
          LET p == enq[e].path IN
          (enq[e].pc = "create" /\ enq'[e].pc = "idle" /\ EntriesFor(p) # {}) =>
            /\ (InList(p, config.uploadext) /\ EntryFor(p).dest_remote = "")
                 => queue' = queue
            /\ (/\ ~InList(p, config.uploadext)
                /\ InList(p, config.copyext)
                /\ EntryFor(p).dest_local = "") => queue' = queue
            /\ (/\ \/ /\ InList(p, config.uploadext)
                      /\ EntryFor(p).dest_remote # ""
                   \/ /\ ~InList(p, config.uploadext)
                      /\ InList(p, config.copyext)
                      /\ EntryFor(p).dest_local # ""
                /\ \A j \in Ids(queue) : queue[j].file_path # p)
                 => /\ Len(queue') = Len(queue) + 1
                    /\ queue'[Len(queue')].file_path = p
     /\ \A i \in Ids(queue) :
          /\ queue[i].operation_type \in {"upload", "copy"}
          /\ queue[i].operation_type = "upload" =>
               queue[i].dest_remote \notin {NoneVal, ""}
                 /\ queue[i].dest_local = NoneVal
          /\ queue[i].operation_type = "copy" =>
               queue[i].dest_local \notin {NoneVal, ""}
                 /\ queue[i].dest_remote = NoneVal]_vars

\* with both destinations configured, a file whose suffix is in both lists
\* was enqueued as Upload without a local destination, and a pass for a file
\* whose suffix is in both lists is about to be dropped for its missing
\* remote destination although the local one is configured
C22_Witness ==
  /\ \E i \in Ids(queue) :
       /\ InList(queue[i].file_path, config.uploadext)
       /\ InList(queue[i].file_path, config.copyext)
       /\ EntryFor(queue[i].file_path).dest_local # ""
       /\ queue[i].operation_type = "upload"
       /\ queue[i].dest_local = NoneVal
  /\ enq[1].pc = "create"
  /\ InList(enq[1].path, config.uploadext)
  /\ InList(enq[1].path, config.copyext)
  /\ EntryFor(enq[1].path).dest_remote = ""
  /\ EntryFor(enq[1].path).dest_local # ""

C24_CaseInsensitiveExtensions ==
  \A p \in EventPaths :
    \A value \in {config.uploadext, config.copyext} :
      (\E entry \in ExtList(value) : Lower(entry) = Lower(SuffixOf(p)))
        => InList(p, value)

\* C25: no step changes the created_at of a row, and a task that went back to
\* Pending after a failed attempt keeps its place: when it is the Pending task
\* created first, the next selection of process_one_task takes it, ahead of
\* every task created after it.
C25_RetryKeepsFifoPlace ==
  [][/\ \A i \in Ids(queue) : queue'[i].created_at = queue[i].created_at
     /\ \A w \in Workers :
          (proc[w].pc = "get" /\ proc'[w].pc = "mark") =>
            \A i \in Ids(queue) :
              (/\ queue[i].status = "pending"
               /\ queue[i].retry_count > 0
               /\ \A j \in Ids(queue) : j < i => queue[j].status # "pending")
                => proc'[w].task.id = i]_vars

\* C26: whenever no process_one_task call is in progress, also after a crash
\* or a store fault between the two writes of the success branch, every
\* Completed task has a history row with its fingerprint and size (no cleanup
\* runs here).
C26_CompletedHasHistory ==
  (\A w \in Workers : proc[w].pc = "idle") =>
    \A i \in Ids(queue) : queue[i].status = "completed" => Historized(queue[i])

RECURSIVE SumOks(_)
\* successful transfers counted over a sequence of observer records
SumOks(x) == IF x = <<>> THEN 0 ELSE x[1].oks + SumOks(Tail(x))

\* C27: history rows are written only by the success branch of
\* process_one_task, one row for the task whose transfer just succeeded, and
\* one row for every successful transfer: whenever no call is in progress the
\* table holds as many rows as transfers succeeded; enqueue_file, the startup
\* reset, the source-missing branch, the dedup branch and the failure branch
\* leave the table as it is, and no step takes a row out or changes one.
C27_HistoryWrittenOnlyOnSuccess ==
  [][/\ history' # history =>
          \E w \in Workers :
            LET task == proc[w].task IN
            /\ proc[w].pc = "record"
            /\ proc'[w].pc \in {"delete", "finally"}
            /\ xfer[task.id].oks >= 1
            /\ queue[task.id].status = "completed"
            /\ queue' = queue
            /\ Len(history') = Len(history) + 1
            /\ SubSeq(history', 1, Len(history)) = history
            /\ history'[Len(history')].file_path = task.file_path
            /\ history'[Len(history')].file_size = task.file_size
            /\ history'[Len(history')].file_fingerprint
                 = ToStr(task.file_size) \o <<"_">> \o ToStr(task.file_mtime)
     /\ \A w \in Workers :
          (proc[w].pc \in {"enter", "get", "mark", "exists", "missing",
                            "dedup", "skip", "exec", "ok", "fail", "delete",
                            "finally"}
            /\ proc'[w] # proc[w]) => history' = history
     /\ Len(queue') # Len(queue) => history' = history
     /\ running' # running => history' = history
     /\ (\A w \in Workers : proc'[w].pc = "idle")
          => Len(history') = SumOks(xfer')]_vars

\* C28: in every state a task with an error_message is Failed: a failed
\* attempt that sends the task back to Pending stores no message, and
\* Pending, Processing and Completed rows have none.
C28_ErrorMessageOnlyWhenFailed ==
  [][/\ \A i \in Ids(queue) :
          queue[i].error_message # NoneVal => queue[i].status = "failed"
     /\ \A i \in Ids(queue') :
          queue'[i].error_message # NoneVal => queue'[i].status = "failed"
     /\ \A w \in Workers :
          LET id == proc[w].task.id IN
          (proc[w].pc = "fail" /\ proc'[w].pc = "finally" /\ upsets' = upsets
           /\ queue'[id].status = "pending")
            => /\ proc[w].msg \in Msgs
               /\ queue'[id].error_message = NoneVal]_vars

\* one task failed for good with its message while another, after two failed
\* transfers, is Pending without any
C28_Witness ==
  \E i, j \in Ids(queue) :
    /\ queue[i].status = "failed" /\ queue[i].error_message \in Msgs
    /\ queue[j].status = "pending" /\ queue[j].retry_count = 2
    /\ xfer[j].calls = 2 /\ xfer[j].oks = 0
    /\ queue[j].error_message = NoneVal

\* the history holds a row for this size and whole-second modification time
\* that was recorded for another path
RecordedElsewhere(path, size, mtime) ==
  \E k \in 1..Len(history) :
    /\ history[k].file_fingerprint = ToStr(size) \o <<"_">> \o ToStr(mtime)
    /\ history[k].file_size = size
    /\ history[k].file_path # path

\* C29: the history lookup goes by fingerprint and size, not by path: an
\* enqueue pass that looks up a file whose size and whole-second modification
\* time were recorded for another path stops and inserts nothing, and a
\* queued task for such a file goes to the dedup branch and is marked
\* Completed there by the same call, which makes no transfer call (steps in
\* which the process dies or the store raises aside).
C29_DedupIgnoresPath ==
  [][/\ \A e \in Enqueuers :
          (/\ enq[e].pc = "hist" /\ enq'[e] # enq[e]
           /\ RecordedElsewhere(enq[e].path, enq[e].stat.size,
                                 enq[e].stat.mtime10 \div 10))
            => enq'[e] = IdleEnq /\ queue' = queue /\ history' = history
     /\ \A w \in Workers :
          LET task == proc[w].task IN
          /\ (/\ proc[w].pc = "dedup" /\ proc'[w] # proc[w]
               /\ upsets' = upsets
               /\ RecordedElsewhere(task.file_path, task.file_size,
                                     task.file_mtime))
                => /\ proc'[w].pc = "skip"
                   /\ queue' = queue /\ xfer' = xfer
          /\ (proc[w].pc = "skip" /\ proc'[w] # proc[w] /\ upsets' = upsets)
                => /\ queue'[task.id].status = "completed"
                   /\ proc'[w].pc = "finally"
                   /\ xfer' = xfer /\ history' = history]_vars

\* the only history row belongs to one path; the task of the other path, a
\* file of the same size and second, was completed without a transfer call
C29_Witness ==
  \E i \in Ids(queue) :
    /\ Len(history) = 1
    /\ history[1].file_path # queue[i].file_path
    /\ RecordedElsewhere(queue[i].file_path, queue[i].file_size,
                          queue[i].file_mtime)
    /\ queue[i].status = "completed"
    /\ xfer[i].calls = 0
    /\ proc[1].pc = "idle"

\* a row left Processing by a call that is over: no call holds it
Orphaned(i) ==
  /\ queue[i].status = "processing"
  /\ \A w \in Workers : proc[w].task.id # i

\* C30: a row left Processing by a call that ended on a fault, or by a crash,
\* is not selected by any later process_one_task call, no transfer is started
\* for it and no step changes it, except the startup reset, which makes it
\* Pending; meanwhile a call that finds Pending rows selects one of them.
C30_ProcessingIsNotSelected ==
  [][/\ \A i \in Ids(queue) :
          Orphaned(i) =>
            /\ \A w \in Workers : proc'[w].task.id # i
            /\ xfer'[i] = xfer[i]
            /\ queue'[i] # queue[i] =>
                 /\ ~running /\ running'
                 /\ queue'[i] = [queue[i] EXCEPT !.status = "pending"]
     /\ \A w \in Workers :
          (proc[w].pc = "get" /\ proc'[w] # proc[w] /\ upsets' = upsets) =>
            IF \E j \in Ids(queue) : queue[j].status = "pending"
            THEN /\ proc'[w].pc = "mark"
                 /\ queue[proc'[w].task.id].status = "pending"
            ELSE proc'[w].pc = "finally" /\ proc'[w].task = NoTask]_vars

\* the first task is still Processing after the call that held it ended on a
\* store fault; a later call runs the transfer of the second task
C30_Witness ==
  /\ running
  /\ upsets = 1
  /\ Len(queue) = 2
  /\ Orphaned(1)
  /\ proc[1].pc = "exec"
  /\ proc[1].task.id = 2
  /\ queue[2].status = "processing"

====
